---- MODULE Spec2Model ----
(***************************************************************************)
(* VenueVibe backend: the booking store and the create_booking pipeline    *)
(* of app.py over the tables of models.py.                                 *)
(*                                                                         *)
(* Calendar dates are day numbers: day 1 is 2025-06-01, day 2 is           *)
(* 2025-06-02, day 3 is 2025-06-03, and so on.  A DateTime value is a      *)
(* record [day, tod] where tod = 0 is midnight and tod > 0 a later time    *)
(* of the same day.  The contact_email / contact_phone columns are copied  *)
(* from the request without any logic and are left out.                    *)
(***************************************************************************)
EXTENDS Integers, Sequences, FiniteSets, Bags

\* users, venues, bookings: the tables, a row's id being its index.
\* response: the last operation and what it answered.
\* saved: the saved_venues table, a bag of rows: the API shows no row id.
\* procs: the requests in flight, one per worker: where each handler is
\* between its reads and its commit, and what it holds.
VARIABLES users, venues, bookings, response, saved, procs

vars == <<users, venues, bookings, response, saved, procs>>

\* ---------------------------------------------------------------- bounds
MaxBookings == 2
MaxVenues == 2
MaxDay == 3

\* Rows the users table is let grow to.
MaxUsers == 3

\* Requests the server handles at the same time.
MaxProcs == 2

\* Times of day a DateTime distinguishes: 0 (midnight) .. TicksPerDay - 1.
TicksPerDay == 2

Days == 1..MaxDay

Procs == 1..MaxProcs

\* A worker that handles no request.
Idle == [pc |-> "idle"]

\* ------------------------------------------------------- values and inputs
\* The SQL NULL / Python None of a nullable DateTime column.
NoDate == [day |-> 0, tod |-> 0]

DateTime(d, t) == [day |-> d, tod |-> t]

\* Strings a client can put in event_date / end_date (BookingSchema: str):
\*   "date"  a well-formed YYYY-MM-DD string (10 characters)
\*   "ts"    a well-formed ISO-8601 timestamp string (longer than 10)
\*   "bad"   a string that is no date in either form
\*   "empty" the empty string
\*   "none"  the field is absent (end_date only: Optional[str] = None)
Str(k, d, t) == [kind |-> k, day |-> d, tod |-> t]

DateStr(d) == Str("date", d, 0)
TsStr(d, t) == Str("ts", d, t)
BadStr == Str("bad", 0, 0)
EmptyStr == Str("empty", 0, 0)
NoneStr == Str("none", 0, 0)

EventStrings == {DateStr(d) : d \in Days} \cup {BadStr}
EndStrings == {DateStr(d) : d \in Days} \cup {BadStr, EmptyStr, NoneStr}

GuestCounts == {2, 4}

\* The one account of the initial store.
SeedUser ==
    [username |-> "alice", email |-> "alice@example.com",
     password_hash |-> "pw", provider |-> "email"]

\* What a VenueSchema body carries of interest here: capacity, price_per_day.
Venue(c, p) == [capacity |-> c, price_per_day |-> p]

NoVenue == Venue(0, 0)

VenueInputs == {Venue(3, 250)}

\* Request bodies (BookingSchema) with dates in the date-only form, well
\* formed or not, for stored and unknown users and venues.
BookingRequests ==
    [user_id : 1..2, venue_id : 1..(MaxVenues + 1), event_date : EventStrings,
     end_date : EndStrings, guest_count : GuestCounts]

\* Well-formed request bodies with dates in both forms, date-only and
\* timestamp (a time of day after midnight).
BothForms == {DateStr(d) : d \in Days} \cup {TsStr(d, 1) : d \in Days}

TimestampRequests ==
    [user_id : {1}, venue_id : 1..MaxVenues, event_date : BothForms,
     end_date : BothForms \cup {NoneStr}, guest_count : {2}]

\* Single-day request bodies whose event_date is in either form.
FormRequests ==
    [user_id : {1}, venue_id : 1..MaxVenues, event_date : BothForms,
     end_date : {NoneStr}, guest_count : {2}]

\* guest_count is an int without any constraint: negative numbers and zero
\* pass the schema like any other.
AnyGuestCounts == -1..4

\* Single-day request bodies with guest counts of every sign.
GuestRequests ==
    [user_id : {1}, venue_id : 1..MaxVenues, event_date : {DateStr(1)},
     end_date : {NoneStr}, guest_count : AnyGuestCounts]

\* ------------------------------------------------------------- responses
\* An answer: the operation, the HTTP status, the kind of error, and in
\* `detail` the numbers the body carries (its fixed texts are left out).
Response(op, status, error, detail) ==
    [op |-> op, status |-> status, error |-> error, detail |-> detail]

NoResponse == Response("none", 0, "", <<>>)

\* ------------------------------------------------------------ date parsing
\* datetime.strptime(s, "%Y-%m-%d") for a 10-character string and
\* datetime.fromisoformat(s) otherwise: both raise ValueError on a string
\* that is no date; "" has length 0 and goes to fromisoformat, which raises.
parses(s) == s.kind \in {"date", "ts"}

\* The datetime the parse returns: midnight of the day for the date-only
\* form, the day and time of day for the timestamp form.
parse_date(s) == IF s.kind = "date" THEN DateTime(s.day, 0) ELSE DateTime(s.day, s.tod)

\* `if booking.end_date:` is false for None and for "".
end_date_given(s) == s.kind \notin {"none", "empty"}

\* datetime.date(): the calendar date of a DateTime.
date(dt) == dt.day

\* The conflict query compares the DateTime column with the request's raw
\* string, which PostgreSQL casts to a timestamp: the cast fails (DataError)
\* on a string that is no timestamp, the empty string included.
casts(s) == s.kind \in {"date", "ts"}

cast_timestamp(s) == IF s.kind = "date" THEN DateTime(s.day, 0) ELSE DateTime(s.day, s.tod)

\* --------------------------------------------------------- create_booking
\* The lookup without its filter on the id: the first venue of the table.
get_venue_unfiltered(venue_id) ==
    IF venues # <<>> THEN venues[1] ELSE NoVenue

\* A. db.query(Venue).filter(Venue.id == venue_id).first(): the venue with
\* this id, or None.
get_venue(venue_id) ==
    IF venue_id \in DOMAIN venues THEN venues[venue_id] ELSE NoVenue

\* The comparison off by one: one guest too many is let through.
capacity_exceeded_off_by_one(guest_count, venue) ==
    guest_count > venue.capacity + 1

\* The comparison made strict the other way: a party of exactly the
\* capacity is turned away.
capacity_exceeded_at_capacity(guest_count, venue) ==
    guest_count >= venue.capacity

\* B. Capacity Validation
capacity_exceeded(guest_count, venue) == guest_count > venue.capacity

\* The availability query as an interval test: an Approved booking of the
\* venue whose span of days holds the requested day.
conflict_span(venue_id, event_ts) ==
    \E i \in DOMAIN bookings :
        /\ bookings[i].venue_id = venue_id
        /\ bookings[i].status = "Approved"
        /\ bookings[i].event_date.day <= event_ts.day
        /\ event_ts.day <= (IF bookings[i].end_date = NoDate
                             THEN bookings[i].event_date.day
                             ELSE bookings[i].end_date.day)

\* The availability query with the wrong status constant: Pending rows,
\* not Approved ones, block a date.
conflict_wrong_status(venue_id, event_ts) ==
    \E i \in DOMAIN bookings :
        /\ bookings[i].venue_id = venue_id
        /\ bookings[i].event_date = event_ts
        /\ bookings[i].status = "Pending"

\* The availability query without its venue filter: an Approved booking of
\* any venue blocks the date.
conflict_any_venue(venue_id, event_ts) ==
    \E i \in DOMAIN bookings :
        /\ bookings[i].event_date = event_ts
        /\ bookings[i].status = "Approved"

\* C. Availability Check: an Approved booking of this venue whose event_date
\* equals the requested one.
conflict(venue_id, event_ts) ==
    \E i \in DOMAIN bookings :
        /\ bookings[i].venue_id = venue_id
        /\ bookings[i].event_date = event_ts
        /\ bookings[i].status = "Approved"

\* The day count from the difference of the two datetimes, without taking
\* their calendar dates first: (end_date - event_date).days + 1.
days_diff_timedelta(event_date, end_date) ==
    IF end_date # NoDate
    THEN (((end_date.day * TicksPerDay + end_date.tod)
            - (event_date.day * TicksPerDay + event_date.tod)) \div TicksPerDay) + 1
    ELSE 1

\* Number of days of the booking, inclusive of both dates.
days_diff(event_date, end_date) ==
    IF end_date # NoDate THEN (date(end_date) - date(event_date)) + 1 ELSE 1

total_cost(venue, days) == venue.price_per_day * days

\* The row built with the wrong initial status.
new_booking_approved(r, event_date, end_date, cost) ==
    [user_id |-> r.user_id, venue_id |-> r.venue_id, event_date |-> event_date,
     end_date |-> end_date, guest_count |-> r.guest_count, total_cost |-> cost,
     status |-> "Approved"]

new_booking(r, event_date, end_date, cost) ==
    [user_id |-> r.user_id, venue_id |-> r.venue_id, event_date |-> event_date,
     end_date |-> end_date, guest_count |-> r.guest_count, total_cost |-> cost,
     status |-> "Pending"]

\* db.add + db.commit: bookings.user_id is a foreign key into users, so the
\* commit of a row whose user_id is no stored user raises IntegrityError and
\* stores nothing (venue_id was looked up before and exists).
commit_ok(row) == row.user_id \in DOMAIN users

\* The row added twice before the commit.
insert_twice(row) == Append(Append(bookings, row), row)

\* An insert that gives way to a stored booking of the same venue and
\* event_date, as a unique index on the two columns would make it.
insert_if_free(row) ==
    IF \E i \in DOMAIN bookings :
          /\ bookings[i].venue_id = row.venue_id
          /\ bookings[i].event_date = row.event_date
    THEN bookings
    ELSE Append(bookings, row)

\* db.add(new_booking): one more row, with the next id.
insert(row) == Append(bookings, row)

\* What a handler leaves behind: the HTTP response and the tables.
Outcome(resp, rows) ==
    [response |-> resp, users |-> users, venues |-> venues, bookings |-> rows]

HTTPException(status, error, detail) ==
    Outcome(Response("create_booking", status, error, detail), bookings)

\* An exception no handler catches: FastAPI answers 500, the session is
\* closed without a commit.
Unhandled(exception) ==
    Outcome(Response("create_booking", 500, exception, <<>>), bookings)

\* An answer that carries the id of the row just stored.
booking_submitted_with_id(rows) ==
    Response("create_booking", 200, "", <<Len(rows)>>)

\* return {"message": "Booking request submitted", "status": "Pending"}: the
\* answer is the same two texts whatever the table `rows` after the commit
\* holds, no id or column of the row is in it.
booking_submitted(rows) == Response("create_booking", 200, "", <<>>)

\* The handler with its availability check moved before its capacity check.
create_booking_conflict_first(r) ==
    LET venue == get_venue(r.venue_id) IN
    IF venue = NoVenue
    THEN HTTPException(404, "VenueNotFound", <<>>)
    ELSE IF ~casts(r.event_date)
    THEN Unhandled("DataError")
    ELSE IF conflict(r.venue_id, cast_timestamp(r.event_date))
    THEN HTTPException(400, "DateUnavailable", <<>>)
    ELSE IF capacity_exceeded(r.guest_count, venue)
    THEN HTTPException(400, "CapacityExceeded", <<r.guest_count, venue.capacity>>)
    ELSE IF ~parses(r.event_date)
    THEN Unhandled("ValueError")
    ELSE IF end_date_given(r.end_date) /\ ~parses(r.end_date)
    THEN Unhandled("ValueError")
    ELSE LET event_date == parse_date(r.event_date)
             end_date == IF end_date_given(r.end_date)
                         THEN parse_date(r.end_date) ELSE NoDate
             row == new_booking(r, event_date, end_date,
                                total_cost(venue, days_diff(event_date, end_date)))
         IN IF ~commit_ok(row)
            THEN Unhandled("IntegrityError")
            ELSE Outcome(booking_submitted(insert(row)), insert(row))

create_booking(r) ==
    LET venue == get_venue(r.venue_id) IN
    IF venue = NoVenue
    THEN HTTPException(404, "VenueNotFound", <<>>)
    ELSE IF capacity_exceeded(r.guest_count, venue)
    THEN HTTPException(400, "CapacityExceeded", <<r.guest_count, venue.capacity>>)
    ELSE IF ~casts(r.event_date)
    THEN Unhandled("DataError")
    ELSE IF conflict(r.venue_id, cast_timestamp(r.event_date))
    THEN HTTPException(400, "DateUnavailable", <<>>)
    ELSE IF ~parses(r.event_date)
    THEN Unhandled("ValueError")
    ELSE IF end_date_given(r.end_date) /\ ~parses(r.end_date)
    THEN Unhandled("ValueError")
    ELSE LET event_date == parse_date(r.event_date)
             end_date == IF end_date_given(r.end_date)
                         THEN parse_date(r.end_date) ELSE NoDate
             row == new_booking(r, event_date, end_date,
                                total_cost(venue, days_diff(event_date, end_date)))
         IN IF ~commit_ok(row)
            THEN Unhandled("IntegrityError")
            ELSE Outcome(booking_submitted(insert(row)), insert(row))

\* ------------------------------------------------------------------ reads
\* Authorization headers a client can send:
\*   "none"    a header that does not start with "Bearer "
\*   "invalid" a bearer token jwt.decode rejects (JWTError)
\*   "bearer"  a token the service issued, its "sub" the id of a user
Header(k, u) == [kind |-> k, sub |-> u]

Headers ==
    {Header("none", 0), Header("invalid", 0)} \cup {Header("bearer", u) : u \in 1..2}

\* A row as a response body shows it: its columns and its id.
with_id(rows, i) ==
    [id |-> i, user_id |-> rows[i].user_id, venue_id |-> rows[i].venue_id,
     event_date |-> rows[i].event_date, end_date |-> rows[i].end_date,
     guest_count |-> rows[i].guest_count, total_cost |-> rows[i].total_cost,
     status |-> rows[i].status]

\* GET /bookings: db.query(Booking).all(), every row of the table.
get_bookings(rows) == [i \in DOMAIN rows |-> with_id(rows, i)]

\* GET /venues/{venue_id}/booked-dates: the event_date of every Approved
\* booking of the venue, formatted with strftime("%Y-%m-%d"): a date-only
\* string, the time of day dropped.  An unknown venue gives the empty list.
get_venue_booked_dates(venue_id) ==
    LET approved == SelectSeq(bookings, LAMBDA b :
                        b.venue_id = venue_id /\ b.status = "Approved")
    IN [i \in DOMAIN approved |-> DateStr(date(approved[i].event_date))]

\* The listing filtered on the wrong column.
get_user_bookings_by_venue(rows, h) ==
    IF h.kind # "bearer"
    THEN [status |-> 401, body |-> <<>>]
    ELSE IF h.sub \notin DOMAIN users
    THEN [status |-> 404, body |-> <<>>]
    ELSE [status |-> 200,
          body |-> SelectSeq(get_bookings(rows), LAMBDA b : b.venue_id = h.sub)]

\* GET /bookings/my-bookings: 401 without a valid bearer token, 404 when the
\* token's user is not stored, else the bookings of that user.
get_user_bookings(rows, h) ==
    IF h.kind # "bearer"
    THEN [status |-> 401, body |-> <<>>]
    ELSE IF h.sub \notin DOMAIN users
    THEN [status |-> 404, body |-> <<>>]
    ELSE [status |-> 200,
          body |-> SelectSeq(get_bookings(rows), LAMBDA b : b.user_id = h.sub)]

\* ----------------------------------------------------------------- actions
Init ==
    /\ users = <<SeedUser>>
    /\ venues = <<Venue(2, 100)>>
    /\ bookings = <<>>
    /\ response = NoResponse
    /\ saved = EmptyBag
    /\ procs = [p \in Procs |-> Idle]

\* POST /bookings
CreateBooking(r) ==
    \E o \in {create_booking(r)} :
    /\ o.response.status = 200 => Len(bookings) < MaxBookings
    /\ users' = o.users
    /\ venues' = o.venues
    /\ bookings' = o.bookings
    /\ response' = o.response
    /\ UNCHANGED <<saved, procs>>

\* POST /venues
CreateVenue(v) ==
    /\ Len(venues) < MaxVenues
    /\ venues' = Append(venues, v)
    /\ response' = Response("create_venue", 200, "", <<>>)
    /\ UNCHANGED <<users, bookings, saved, procs>>

\* The moderation step outside the service: a Pending booking becomes
\* Approved or Rejected.  It is no API call: it is logged in `response`
\* as the last operation, with no HTTP status.
Moderate(i, s) ==
    /\ bookings[i].status = "Pending"
    /\ bookings' = [bookings EXCEPT ![i].status = s]
    /\ response' = Response("moderate", 0, "", <<>>)
    /\ UNCHANGED <<users, venues, saved, procs>>

\* The moderation step of a moderator who applies the availability rule of
\* the service before approving: no booking is Approved on the event_date of
\* an Approved booking of its venue.
ModerateChecked(i, s) ==
    /\ s = "Approved" => ~conflict(bookings[i].venue_id, bookings[i].event_date)
    /\ Moderate(i, s)

Statuses == {"Approved", "Rejected"}

Next ==
    \/ \E r \in BookingRequests : CreateBooking(r)
    \/ \E v \in VenueInputs : CreateVenue(v)
    \/ \E i \in DOMAIN bookings, s \in Statuses : Moderate(i, s)

\* Any sequence of API calls and moderation steps.
Spec == Init /\ [][Next]_vars

NextChecked ==
    \/ \E r \in BookingRequests : CreateBooking(r)
    \/ \E v \in VenueInputs : CreateVenue(v)
    \/ \E i \in DOMAIN bookings, s \in Statuses : ModerateChecked(i, s)

\* The same, with a moderator who checks availability before approving.
SpecChecked == Init /\ [][NextChecked]_vars

NextTs ==
    \/ \E r \in TimestampRequests : CreateBooking(r)
    \/ \E v \in VenueInputs : CreateVenue(v)

\* Bookings created from dates in both forms.
SpecTs == Init /\ [][NextTs]_vars

NextForms ==
    \/ \E r \in FormRequests : CreateBooking(r)
    \/ \E v \in VenueInputs : CreateVenue(v)
    \/ \E i \in DOMAIN bookings, s \in Statuses : Moderate(i, s)

\* Single-day bookings created from start dates in both forms, and moderated.
SpecForms == Init /\ [][NextForms]_vars

NextGuests ==
    \/ \E r \in GuestRequests : CreateBooking(r)
    \/ \E v \in VenueInputs : CreateVenue(v)

\* Bookings for parties of any size, negative and zero included.
SpecGuests == Init /\ [][NextGuests]_vars

\* ----------------------------------------------------- requests in parallel
\* Single-day request bodies for the workers that run side by side.
ParallelRequests ==
    [user_id : {1}, venue_id : 1..MaxVenues, event_date : {DateStr(d) : d \in Days},
     end_date : {NoneStr}, guest_count : {2}]

\* POST /bookings up to the construction of the row: the worker has looked
\* the venue up, run the conflict query and parsed the dates in its own
\* session.  A request that fails is answered at once; one that passes
\* holds its row, and `seen`, the number of rows the bookings table had
\* when the conflict query ran.
BookingCheck(p, r) ==
    /\ procs[p].pc = "idle"
    /\ \E o \in {create_booking(r)} :
         IF o.response.status = 200
         THEN /\ procs' = [procs EXCEPT ![p] =
                     [pc |-> "insert", row |-> o.bookings[Len(o.bookings)],
                      seen |-> Len(bookings)]]
              /\ UNCHANGED response
         ELSE /\ procs' = [procs EXCEPT ![p] = [pc |-> "failed"]]
              /\ response' = o.response
    /\ UNCHANGED <<users, venues, bookings, saved>>

\* db.add(new_booking); db.commit() and the answer: the row goes into the
\* table as it is now, the conflict query is not run again.
BookingCommit(p) ==
    /\ procs[p].pc = "insert"
    /\ IF commit_ok(procs[p].row)
       THEN /\ bookings' = insert(procs[p].row)
            /\ response' = booking_submitted(bookings')
       ELSE /\ bookings' = bookings
            /\ response' = Response("create_booking", 500, "IntegrityError", <<>>)
    /\ procs' = [procs EXCEPT ![p].pc = "done"]
    /\ UNCHANGED <<users, venues, saved>>

NextParallel ==
    \/ \E p \in Procs, r \in ParallelRequests : BookingCheck(p, r)
    \/ \E p \in Procs : BookingCommit(p)
    \/ \E v \in VenueInputs : CreateVenue(v)
    \/ \E i \in DOMAIN bookings, s \in Statuses : Moderate(i, s)

\* Each worker handles one create_booking request, the workers' steps
\* interleaved with each other and with moderation.
SpecParallel == Init /\ [][NextParallel]_vars

\* ------------------------------------------------------------ saved venues
\* A second account, for the store of the saved-venue specification.
SecondUser ==
    [username |-> "bob", email |-> "bob@example.com",
     password_hash |-> "pw2", provider |-> "email"]

\* SavedVenue(user_id=user.id, venue_id=venue_id)
SavedVenue(u, v) == [user_id |-> u, venue_id |-> v]

\* The steps save_venue and unsave_venue share: 401 without a bearer token
\* or with one that does not decode, 404 for a token whose user is not
\* stored; save_venue then looks the venue up.
authenticate(op, h) ==
    IF h.kind = "none"
    THEN Response(op, 401, "NotAuthenticated", <<>>)
    ELSE IF h.kind = "invalid"
    THEN Response(op, 401, "InvalidToken", <<>>)
    ELSE IF h.sub \notin DOMAIN users
    THEN Response(op, 404, "UserNotFound", <<>>)
    ELSE Response(op, 200, "", <<>>)

\* save_venue up to its check of the table: the answer of the first check
\* that fails, or 200 when the row may be added.
save_venue_check(h, venue_id) ==
    LET auth == authenticate("save_venue", h) IN
    IF auth.status # 200
    THEN auth
    ELSE IF venue_id \notin DOMAIN venues
    THEN Response("save_venue", 404, "VenueNotFound", <<>>)
    ELSE IF BagIn(SavedVenue(h.sub, venue_id), saved)
    THEN Response("save_venue", 409, "AlreadySaved", <<>>)
    ELSE auth

\* unsave_venue up to its lookup of the row: 404 when the pair is not saved.
unsave_venue_find(h, venue_id) ==
    LET auth == authenticate("unsave_venue", h) IN
    IF auth.status # 200
    THEN auth
    ELSE IF ~BagIn(SavedVenue(h.sub, venue_id), saved)
    THEN Response("unsave_venue", 404, "VenueNotSaved", <<>>)
    ELSE auth

\* A table without the constraint: every row is let in.
unique_unchecked(row) == TRUE

\* UniqueConstraint("user_id", "venue_id") of saved_venues: the commit of a
\* row whose pair is in the table fails.
unique_user_venue_save(row) == ~BagIn(row, saved)

\* A delete that takes the pair's bookings along.
delete_with_bookings(row) ==
    [saved |-> saved (-) SetToBag({row}),
     bookings |-> SelectSeq(bookings, LAMBDA b :
                     ~(b.user_id = row.user_id /\ b.venue_id = row.venue_id))]

\* db.delete(saved_venue); db.commit(): the tables afterwards.  One row of
\* saved_venues goes, if it is still there; no other table is touched.
delete(row) ==
    [saved |-> saved (-) SetToBag({row}), bookings |-> bookings]

\* POST /venues/{venue_id}/save, from the request to the check of the table.
SaveCheck(p, h, venue_id) ==
    /\ procs[p].pc = "idle"
    /\ \E a \in {save_venue_check(h, venue_id)} :
         IF a.status = 200
         THEN /\ procs' = [procs EXCEPT ![p] =
                     [pc |-> "save", row |-> SavedVenue(h.sub, venue_id)]]
              /\ UNCHANGED response
         ELSE /\ response' = a
              /\ UNCHANGED procs
    /\ UNCHANGED <<users, venues, bookings, saved>>

\* db.add(saved_venue); db.commit(): the row is stored unless the unique
\* constraint refuses it; the IntegrityError is caught nowhere (500).
SaveCommit(p) ==
    /\ procs[p].pc = "save"
    /\ IF unique_user_venue_save(procs[p].row)
       THEN /\ saved' = saved (+) SetToBag({procs[p].row})
            /\ response' = Response("save_venue", 200, "", <<>>)
       ELSE /\ saved' = saved
            /\ response' = Response("save_venue", 500, "IntegrityError", <<>>)
    /\ procs' = [procs EXCEPT ![p] = Idle]
    /\ UNCHANGED <<users, venues, bookings>>

\* DELETE /venues/{venue_id}/save, from the request to the lookup of the row.
UnsaveFind(p, h, venue_id) ==
    /\ procs[p].pc = "idle"
    /\ \E a \in {unsave_venue_find(h, venue_id)} :
         IF a.status = 200
         THEN /\ procs' = [procs EXCEPT ![p] =
                     [pc |-> "unsave", row |-> SavedVenue(h.sub, venue_id)]]
              /\ UNCHANGED response
         ELSE /\ response' = a
              /\ UNCHANGED procs
    /\ UNCHANGED <<users, venues, bookings, saved>>

\* db.delete(saved_venue); db.commit()
UnsaveCommit(p) ==
    /\ procs[p].pc = "unsave"
    /\ \E t \in {delete(procs[p].row)} :
         /\ saved' = t.saved
         /\ bookings' = t.bookings
    /\ response' = Response("unsave_venue", 200, "", <<>>)
    /\ procs' = [procs EXCEPT ![p] = Idle]
    /\ UNCHANGED <<users, venues>>

\* Single-day request bodies of the two users for the first venue.
ServiceRequests ==
    [user_id : 1..2, venue_id : {1}, event_date : {DateStr(1)},
     end_date : {NoneStr}, guest_count : {2}]

InitService ==
    /\ users = <<SeedUser, SecondUser>>
    /\ venues = <<Venue(2, 100)>>
    /\ bookings = <<>>
    /\ response = NoResponse
    /\ saved = EmptyBag
    /\ procs = [p \in Procs |-> Idle]

NextService ==
    \/ \E r \in ServiceRequests : CreateBooking(r)
    \/ \E v \in VenueInputs : CreateVenue(v)
    \/ \E p \in Procs, h \in Headers, v \in 1..(MaxVenues + 1) : SaveCheck(p, h, v)
    \/ \E p \in Procs : SaveCommit(p)
    \/ \E p \in Procs, h \in Headers, v \in 1..(MaxVenues + 1) : UnsaveFind(p, h, v)
    \/ \E p \in Procs : UnsaveCommit(p)

\* The writes of the service in any order, save_venue and unsave_venue of
\* the workers interleaved step by step.
SpecService == InitService /\ [][NextService]_vars

\* ------------------------------------------------------------------ users
\* The SQL NULL / Python None of the nullable password_hash column.
NoPassword == "(null)"

\* A field a profile_data mapping does not hold.
Absent == "(absent)"

Usernames == {"alice", "bob", "carol"}
Emails == {"alice@example.com", "bob@example.com", "carol@example.com"}

\* Passwords a client can send; the empty string is one of them.
Passwords == {"", "pw"}

\* UserSchema bodies (role is copied without any logic and left out).
UserInputs == [username : Usernames, email : Emails, password : Passwords]

\* What Google's userinfo says of an account that signed in: email, name.
GoogleAccounts == [name : Usernames, email : Emails]

\* profile_data mappings, with or without a username and an email.
ProfileData ==
    [username : Usernames \cup {Absent}, email : Emails \cup {Absent}]

\* LoginSchema bodies.
LoginInputs == [email : Emails, password : Passwords]

\* unique=True on users.username and users.email: no two rows share a
\* username, no two share an email.
users_unique(rows) ==
    \A i, j \in DOMAIN rows :
        i # j => /\ rows[i].username # rows[j].username
                 /\ rows[i].email # rows[j].email

\* db.query(User).filter(User.email == email).first(): the id of the user
\* with this email, 0 for None.
user_by_email(email) ==
    IF \E i \in DOMAIN users : users[i].email = email
    THEN CHOOSE i \in DOMAIN users : users[i].email = email
    ELSE 0

\* What a users handler leaves behind: its answer and the users table.
UserOutcome(resp, rows) == [response |-> resp, users |-> rows]

\* db.add / attribute updates and db.commit(): the table becomes `rows`
\* unless a unique constraint refuses it; the IntegrityError is caught by
\* none of the handlers, so the answer is 500 and the table stays.
commit_users(op, rows, resp) ==
    IF users_unique(rows)
    THEN UserOutcome(resp, rows)
    ELSE UserOutcome(Response(op, 500, "IntegrityError", <<>>), users)

\* POST /users
create_user(u) ==
    IF user_by_email(u.email) # 0
    THEN UserOutcome(Response("create_user", 400, "EmailRegistered", <<>>), users)
    ELSE IF \E i \in DOMAIN users : users[i].username = u.username
    THEN UserOutcome(Response("create_user", 400, "UsernameTaken", <<>>), users)
    ELSE commit_users("create_user",
            Append(users, [username |-> u.username, email |-> u.email,
                           password_hash |-> u.password, provider |-> "email"]),
            Response("create_user", 200, "", <<Len(users) + 1>>))

\* GET /auth/google after Google has authorized the account g: the user
\* with g's email, or a new user named after the account, without a
\* password; the answer redirects with a token for that user's id.
auth_google(g) ==
    IF user_by_email(g.email) # 0
    THEN UserOutcome(Response("auth_google", 307, "", <<user_by_email(g.email)>>), users)
    ELSE commit_users("auth_google",
            Append(users, [username |-> g.name, email |-> g.email,
                           password_hash |-> NoPassword, provider |-> "google"]),
            Response("auth_google", 307, "", <<Len(users) + 1>>))

\* PUT /users/profile
update_user_profile(h, data) ==
    LET auth == authenticate("update_user_profile", h) IN
    IF auth.status # 200
    THEN UserOutcome(auth, users)
    ELSE LET user == users[h.sub]
             named == IF data.username # Absent
                      THEN [user EXCEPT !.username = data.username] ELSE user
             mailed == IF data.email # Absent
                       THEN [named EXCEPT !.email = data.email] ELSE named
         IN commit_users("update_user_profile",
                [users EXCEPT ![h.sub] = mailed], auth)

CreateUser(u) ==
    /\ \E o \in {create_user(u)} :
         /\ Len(o.users) <= MaxUsers
         /\ users' = o.users
         /\ response' = o.response
    /\ UNCHANGED <<venues, bookings, saved, procs>>

AuthGoogle(g) ==
    /\ \E o \in {auth_google(g)} :
         /\ Len(o.users) <= MaxUsers
         /\ users' = o.users
         /\ response' = o.response
    /\ UNCHANGED <<venues, bookings, saved, procs>>

UpdateUserProfile(h, data) ==
    /\ \E o \in {update_user_profile(h, data)} :
         /\ users' = o.users
         /\ response' = o.response
    /\ UNCHANGED <<venues, bookings, saved, procs>>

\* `not user.password_hash` is false for a stored text that is not empty.
has_password(user) == user.password_hash \notin {NoPassword, ""}

\* A login that reads a missing password as the empty one and compares.
login_null_as_empty(l) ==
    LET id == user_by_email(l.email) IN
    IF id = 0
       \/ l.password # (IF users[id].password_hash = NoPassword
                        THEN "" ELSE users[id].password_hash)
    THEN UserOutcome(Response("login", 401, "InvalidCredentials", <<>>), users)
    ELSE UserOutcome(Response("login", 200, "", <<id>>), users)

\* POST /token: a token for the id of the user with this email, when the
\* user has a password and it is the one submitted; 401 otherwise.
login(l) ==
    LET id == user_by_email(l.email) IN
    IF id = 0 \/ ~has_password(users[id]) \/ l.password # users[id].password_hash
    THEN UserOutcome(Response("login", 401, "InvalidCredentials", <<>>), users)
    ELSE UserOutcome(Response("login", 200, "", <<id>>), users)

Login(l) ==
    /\ \E o \in {login(l)} :
         /\ users' = o.users
         /\ response' = o.response
    /\ UNCHANGED <<venues, bookings, saved, procs>>

NextUsers ==
    \/ \E u \in UserInputs : CreateUser(u)
    \/ \E g \in GoogleAccounts : AuthGoogle(g)
    \/ \E h \in Headers, data \in ProfileData : UpdateUserProfile(h, data)
    \/ \E l \in LoginInputs : Login(l)

\* Sign-ups, Google sign-ins, profile updates and password logins in any
\* order.
SpecUsers == Init /\ [][NextUsers]_vars

\* ---------------------------------------------------------------- invoices
\* The handler without its ownership test.
download_invoice_any_owner(h, booking_id) ==
    LET auth == authenticate("download_invoice", h) IN
    IF auth.status # 200
    THEN auth
    ELSE IF booking_id \notin DOMAIN bookings
    THEN Response("download_invoice", 404, "BookingNotFound", <<>>)
    ELSE IF get_venue(bookings[booking_id].venue_id) = NoVenue
    THEN Response("download_invoice", 404, "VenueNotFound", <<>>)
    ELSE Response("download_invoice", 200, "", <<booking_id>>)

\* GET /bookings/{booking_id}/invoice: 401 without a valid bearer token, 404
\* for an unknown user or booking, 403 for a booking of another user, else
\* the invoice of the booking as a PDF.
download_invoice(h, booking_id) ==
    LET auth == authenticate("download_invoice", h) IN
    IF auth.status # 200
    THEN auth
    ELSE IF booking_id \notin DOMAIN bookings
    THEN Response("download_invoice", 404, "BookingNotFound", <<>>)
    ELSE IF bookings[booking_id].user_id # h.sub
    THEN Response("download_invoice", 403, "AccessDenied", <<>>)
    ELSE IF get_venue(bookings[booking_id].venue_id) = NoVenue
    THEN Response("download_invoice", 404, "VenueNotFound", <<>>)
    ELSE Response("download_invoice", 200, "", <<booking_id>>)

\* The handler only reads: no db.add, db.delete or db.commit is in it.
DownloadInvoice(h, booking_id) ==
    /\ response' = download_invoice(h, booking_id)
    /\ UNCHANGED <<users, venues, bookings, saved, procs>>

\* Single-day request bodies of the two users for any stored venue.
InvoiceRequests ==
    [user_id : 1..2, venue_id : 1..MaxVenues, event_date : {DateStr(1)},
     end_date : {NoneStr}, guest_count : {2}]

NextInvoice ==
    \/ \E r \in InvoiceRequests : CreateBooking(r)
    \/ \E v \in VenueInputs : CreateVenue(v)
    \/ \E h \in Headers, b \in 1..(MaxBookings + 1) : DownloadInvoice(h, b)

\* Bookings of two users, and invoice downloads with every kind of header.
SpecInvoice == InitService /\ [][NextInvoice]_vars

\* -------------------------------------------------------------- seed data
\* venues_data: capacity and price_per_day of the ten sample venues.
SampleVenues ==
    <<Venue(200, 45000), Venue(150, 85000), Venue(300, 120000),
      Venue(500, 95000), Venue(250, 65000), Venue(180, 75000),
      Venue(400, 55000), Venue(220, 80000), Venue(120, 60000),
      Venue(80, 150000)>>

\* How a run of the script goes wrong: an exception after k of the sample
\* venues were added to the session, k = 0 .. all of them (the commit
\* fails); NoFailure is the run in which nothing raises.
NoFailure == Len(SampleVenues) + 1

SeedRuns == 0..NoFailure

\* A script that does not look at the table before it adds.
has_venues_unchecked(rows) == FALSE

\* existing_count = session.query(Venue).count(); existing_count > 0
has_venues(rows) == Len(rows) > 0

\* session.commit(): the venues added to the session are stored, in order.
commit_session(rows, pending) == rows \o pending

\* session.rollback(): the venues added to the session are dropped.
rollback_session(rows, pending) == rows

\* seed_venues() run on the venues table `rows`, the run going as f says:
\* the answer carries the exit code of the script as its status and the
\* number of venues stored.
seed_venues(rows, f) ==
    IF has_venues(rows)
    THEN [response |-> Response("seed_venues", 0, "Skipped", <<0>>),
          venues |-> rows]
    ELSE IF f = NoFailure
    THEN [response |-> Response("seed_venues", 0, "", <<Len(SampleVenues)>>),
          venues |-> commit_session(rows, SampleVenues)]
    ELSE [response |-> Response("seed_venues", 1, "Error", <<0>>),
          venues |-> rollback_session(rows, SubSeq(SampleVenues, 1, f))]

SeedVenues(f) ==
    /\ \E o \in {seed_venues(venues, f)} :
         /\ venues' = o.venues
         /\ response' = o.response
    /\ UNCHANGED <<users, bookings, saved, procs>>

InitSeed ==
    /\ users = <<SeedUser>>
    /\ venues = <<>>
    /\ bookings = <<>>
    /\ response = NoResponse
    /\ saved = EmptyBag
    /\ procs = [p \in Procs |-> Idle]

NextSeed ==
    \/ \E f \in SeedRuns : SeedVenues(f)
    \/ \E v \in VenueInputs : CreateVenue(v)
    \/ \E r \in FormRequests : CreateBooking(r)

\* The seed script run any number of times on a store that starts empty,
\* between venue creations and bookings through the API.
SpecSeed == InitSeed /\ [][NextSeed]_vars

\* ------------------------------------------------------------------ claims
Approved(i) == bookings[i].status = "Approved"

\* The bookings table after the handler is the table before it.
NothingStored(o) == o.bookings = bookings

\* The handler stored exactly one more row and kept every other one.
OneRowStored(o) ==
    /\ Len(o.bookings) = Len(bookings) + 1
    /\ \A i \in DOMAIN bookings : o.bookings[i] = bookings[i]

Failed(o, status, error) ==
    /\ o.response.op = "create_booking"
    /\ o.response.status = status
    /\ o.response.error = error

\* C1: in every reachable state, every create_booking request for a stored
\* venue whose guest_count is above the venue's capacity is answered 400
\* CapacityExceeded, with both numbers in the detail, and stores nothing,
\* whatever its dates and whatever bookings exist.
C1_CapacityExceeded ==
    \A r \in BookingRequests :
        (r.venue_id \in DOMAIN venues
            /\ r.guest_count > venues[r.venue_id].capacity)
        => LET o == create_booking(r) IN
           /\ Failed(o, 400, "CapacityExceeded")
           /\ o.response.detail = <<r.guest_count, venues[r.venue_id].capacity>>
           /\ NothingStored(o)

\* A request above capacity was rejected while bookings, one of them
\* Approved, were stored.
C1_Witness ==
    /\ response.op = "create_booking"
    /\ response.status = 400
    /\ response.error = "CapacityExceeded"
    /\ response.detail[1] > response.detail[2]
    /\ \E i \in DOMAIN bookings : Approved(i)

\* C2: in every reachable state, every create_booking request whose venue_id
\* is the id of no stored venue is answered 404 VenueNotFound and stores
\* nothing, whatever its other fields are.
C2_VenueNotFound ==
    \A r \in BookingRequests :
        r.venue_id \notin DOMAIN venues
        => LET o == create_booking(r) IN
           /\ Failed(o, 404, "VenueNotFound")
           /\ NothingStored(o)

\* A request for an unknown venue was rejected while bookings were stored.
C2_Witness ==
    /\ response.op = "create_booking"
    /\ response.status = 404
    /\ response.error = "VenueNotFound"
    /\ bookings # <<>>

\* The value a well-formed date string denotes.
Denoted(s) == DateTime(s.day, s.tod)

WellFormedDate(s) == s.kind \in {"date", "ts"}

\* The request's end_date is absent: not sent, or sent empty.
EndAbsent(r) == r.end_date.kind \in {"none", "empty"}

WithinCapacity(r) ==
    /\ r.venue_id \in DOMAIN venues
    /\ r.guest_count <= venues[r.venue_id].capacity

\* A request every field of which is usable: both dates well formed (or the
\* end date absent) and the requester a stored user.
WellFormed(r) ==
    /\ WellFormedDate(r.event_date)
    /\ EndAbsent(r) \/ WellFormedDate(r.end_date)
    /\ r.user_id \in DOMAIN users

\* The span of a stored booking in days, as the specification defines it.
SpanDays(b) ==
    IF b.end_date = NoDate THEN 1 ELSE (b.end_date.day - b.event_date.day) + 1

\* The same span, from the strings of a request.
RequestSpanDays(r) ==
    IF EndAbsent(r) THEN 1 ELSE (r.end_date.day - r.event_date.day) + 1

LastRow(rows) == rows[Len(rows)]

\* C3: every stored booking has total_cost = price_per_day of its venue times
\* its span in days (calendar date of end_date minus calendar date of
\* event_date, plus one; one when there is no end_date), and every accepted
\* request is priced that way: at price_per_day when end_date is absent or
\* equal to event_date, at three times price_per_day from 2025-06-01 (day 1)
\* to 2025-06-03 (day 3).
C3_TotalCost ==
    /\ \A i \in DOMAIN bookings :
          bookings[i].total_cost
            = venues[bookings[i].venue_id].price_per_day * SpanDays(bookings[i])
    /\ \A r \in BookingRequests \cup TimestampRequests :
          LET o == create_booking(r) IN
          o.response.status = 200
          => LET cost == LastRow(o.bookings).total_cost
                 price == venues[r.venue_id].price_per_day
             IN /\ cost = price * RequestSpanDays(r)
                /\ (EndAbsent(r) \/ r.end_date.day = r.event_date.day)
                      => cost = price
                /\ (~EndAbsent(r) /\ r.event_date.day = 1 /\ r.end_date.day = 3)
                      => cost = price * 3

\* A booking from a time of day 1 to midnight of day 3 was just stored at
\* three times the price of its venue, next to a single-day booking stored at
\* the price itself.
C3_Witness ==
    /\ response.op = "create_booking"
    /\ response.status = 200
    /\ LastRow(bookings).event_date = DateTime(1, 1)
    /\ LastRow(bookings).end_date = DateTime(3, 0)
    /\ LastRow(bookings).total_cost
         = 3 * venues[LastRow(bookings).venue_id].price_per_day
    /\ \E i \in DOMAIN bookings :
          /\ bookings[i].end_date = NoDate
          /\ bookings[i].total_cost = venues[bookings[i].venue_id].price_per_day

\* C4: whenever an Approved booking of venue V has event_date D, every
\* request for V with event_date D and a guest_count within capacity is
\* answered 400 DateUnavailable and stores nothing, whatever its end_date.
C4_DateUnavailable ==
    \A r \in BookingRequests :
        (/\ WithinCapacity(r)
         /\ WellFormedDate(r.event_date)
         /\ \E i \in DOMAIN bookings :
               /\ Approved(i)
               /\ bookings[i].venue_id = r.venue_id
               /\ bookings[i].event_date = Denoted(r.event_date))
        => LET o == create_booking(r) IN
           /\ Failed(o, 400, "DateUnavailable")
           /\ NothingStored(o)

\* A request was rejected as DateUnavailable while an Approved booking was
\* stored.
C4_Witness ==
    /\ response.op = "create_booking"
    /\ response.status = 400
    /\ response.error = "DateUnavailable"
    /\ \E i \in DOMAIN bookings : Approved(i)

\* The inclusive range of days of a booking; empty when end_date is earlier
\* than event_date.
Span(b) ==
    IF b.end_date = NoDate THEN {b.event_date.day}
    ELSE b.event_date.day .. b.end_date.day

Overlap(a, b) == Span(a) \cap Span(b) # {}

\* C5: a well-formed request for venue V within capacity, none of whose
\* Approved bookings starts on the requested event_date, is accepted and
\* stored, also when its span overlaps the span of an Approved booking of V.
C5_OnlyStartDatesConflict ==
    \A r \in BookingRequests :
        (/\ WithinCapacity(r)
         /\ WellFormed(r)
         /\ \A i \in DOMAIN bookings :
               (Approved(i) /\ bookings[i].venue_id = r.venue_id)
               => bookings[i].event_date # Denoted(r.event_date))
        => LET o == create_booking(r) IN
           /\ o.response.status = 200
           /\ OneRowStored(o)
           /\ LastRow(o.bookings).venue_id = r.venue_id
           /\ LastRow(o.bookings).event_date = Denoted(r.event_date)

\* A request was just accepted whose span overlaps the span of an Approved
\* booking of the same venue that starts on another day.
C5_Witness ==
    /\ response.op = "create_booking"
    /\ response.status = 200
    /\ \E i \in DOMAIN bookings :
          /\ i # Len(bookings)
          /\ Approved(i)
          /\ bookings[i].venue_id = LastRow(bookings).venue_id
          /\ bookings[i].event_date # LastRow(bookings).event_date
          /\ Overlap(bookings[i], LastRow(bookings))

\* C6: no two Approved bookings of the same venue have overlapping spans.
C6_NoApprovedOverlap ==
    \A i, j \in DOMAIN bookings :
        (/\ i < j
         /\ Approved(i)
         /\ Approved(j)
         /\ bookings[i].venue_id = bookings[j].venue_id)
        => ~Overlap(bookings[i], bookings[j])

\* C7: create_booking never touches users or venues; when it answers 200 it
\* has stored exactly one more booking and kept every other row as it was;
\* when it fails, for whatever reason, the bookings table is as before.
C7_Frame ==
    \A r \in BookingRequests :
        LET o == create_booking(r) IN
        /\ o.users = users
        /\ o.venues = venues
        /\ IF o.response.status = 200 THEN OneRowStored(o) ELSE NothingStored(o)

\* A request was just accepted next to a stored booking that had been
\* moderated before, which is still what it was.
C7_Witness ==
    /\ response.op = "create_booking"
    /\ response.status = 200
    /\ Len(bookings) = 2
    /\ bookings[1].status # "Pending"
    /\ bookings[2].status = "Pending"

StatusKept ==
    /\ \A i \in DOMAIN bookings :
          i \in DOMAIN bookings' /\ bookings'[i].status = bookings[i].status
    /\ \A i \in DOMAIN bookings' \ DOMAIN bookings :
          bookings'[i].status = "Pending"

\* C8: every step that is not the external moderation step keeps the status
\* of every stored booking, and a booking it adds is Pending.
C8_StatusOnlyModerated ==
    [][StatusKept
        \/ \E i \in DOMAIN bookings, s \in Statuses : Moderate(i, s)]_vars

\* A booking was just created Pending after another one had been Approved.
C8_Witness ==
    /\ response.op = "create_booking"
    /\ response.status = 200
    /\ LastRow(bookings).status = "Pending"
    /\ \E i \in DOMAIN bookings : Approved(i)

\* C9: every stored booking spans at least one day and costs at least the
\* price_per_day of its venue.
C9_SpanAtLeastOne ==
    \A i \in DOMAIN bookings :
        /\ SpanDays(bookings[i]) >= 1
        /\ bookings[i].total_cost >= venues[bookings[i].venue_id].price_per_day

\* C10: a request for a stored venue, within capacity, whose event_date or
\* whose present end_date is no date is answered 400 InvalidDate and stores
\* nothing.
C10_InvalidDate ==
    \A r \in BookingRequests :
        (/\ WithinCapacity(r)
         /\ \/ ~WellFormedDate(r.event_date)
            \/ ~EndAbsent(r) /\ ~WellFormedDate(r.end_date))
        => LET o == create_booking(r) IN
           /\ Failed(o, 400, "InvalidDate")
           /\ NothingStored(o)

\* C11: the conflict check compares calendar dates: in every reachable state,
\* when an Approved booking of a venue has its event_date on calendar date D,
\* every within-capacity request for that venue whose event_date falls on D,
\* as a date-only string or as a timestamp at any time of day, is answered
\* 400 DateUnavailable and stores nothing.
C11_CalendarDateConflict ==
    \A r \in FormRequests :
        (/\ WithinCapacity(r)
         /\ \E i \in DOMAIN bookings :
               /\ Approved(i)
               /\ bookings[i].venue_id = r.venue_id
               /\ date(bookings[i].event_date) = date(Denoted(r.event_date)))
        => LET o == create_booking(r) IN
           /\ Failed(o, 400, "DateUnavailable")
           /\ NothingStored(o)

\* C12: the conflict check and the insert are two steps: every commit of a
\* request that passed its check appends the request's row, with status
\* Pending, to the table as it is at the commit, whatever was stored since
\* the check ran.
C12_CommitWithoutRecheck ==
    [][\A p \in Procs :
          BookingCommit(p)
          => /\ bookings' = Append(bookings, procs[p].row)
             /\ bookings'[Len(bookings')].status = "Pending"]_vars

\* Two requests for the same venue and date both ran their conflict query
\* on the empty table, before either insert, and both are stored as Pending.
C12_Witness ==
    \E p, q \in Procs :
        /\ p < q
        /\ procs[p].pc = "done" /\ procs[q].pc = "done"
        /\ procs[p].seen = 0 /\ procs[q].seen = 0
        /\ procs[p].row = procs[q].row
        /\ bookings = <<procs[p].row, procs[q].row>>
        /\ \A i \in DOMAIN bookings : bookings[i].status = "Pending"

\* What the reads must show of the booking a request created: the values
\* the handler computed from the request.
ReadsAsCreated(b, r) ==
    /\ b.venue_id = r.venue_id
    /\ b.event_date = Denoted(r.event_date)
    /\ b.end_date = (IF EndAbsent(r) THEN NoDate ELSE Denoted(r.end_date))
    /\ b.guest_count = r.guest_count
    /\ b.total_cost = venues[r.venue_id].price_per_day * RequestSpanDays(r)
    /\ b.status = "Pending"

\* C13: with create_booking the only writer of bookings, get_bookings and
\* get_user_bookings show the booking an accepted request created, under the
\* next id, with the venue_id, event_date, end_date, guest_count and
\* total_cost computed at its creation and status Pending, and every booking
\* created before reads after the call as it read before it.
C13_RoundTrip ==
    /\ \A i \in DOMAIN bookings : get_bookings(bookings)[i].status = "Pending"
    /\ \A r \in TimestampRequests :
        LET o == create_booking(r)
            id == Len(bookings) + 1
            all == get_bookings(o.bookings)
            before == get_user_bookings(bookings, Header("bearer", r.user_id)).body
            mine == get_user_bookings(o.bookings, Header("bearer", r.user_id)).body
        IN o.response.status = 200
           => /\ DOMAIN all = 1..id
              /\ all[id].id = id
              /\ ReadsAsCreated(all[id], r)
              /\ \A i \in DOMAIN bookings : all[i] = get_bookings(bookings)[i]
              /\ mine = Append(before, all[id])

\* Two bookings were created, one from a timestamp with an end date, and
\* the user's listing shows both.
C13_Witness ==
    /\ response.op = "create_booking"
    /\ response.status = 200
    /\ Len(get_user_bookings(bookings, Header("bearer", 1)).body) = 2
    /\ \E i \in DOMAIN bookings :
          /\ bookings[i].event_date.tod > 0
          /\ bookings[i].end_date # NoDate
    /\ \E i \in DOMAIN bookings : bookings[i].venue_id = 2

\* C14: no operation of the service deletes a booking: over every step, each
\* booking id of the table is an id of the table afterwards, and its row is
\* the row it was.
C14_BookingsOnlyGrow ==
    [][\A i \in DOMAIN bookings :
          /\ i \in DOMAIN bookings'
          /\ bookings'[i] = bookings[i]]_vars

\* The one delete of the service, unsave_venue, has emptied saved_venues
\* while the bookings table was full.
C14_Witness ==
    /\ response.op = "unsave_venue"
    /\ response.status = 200
    /\ saved = EmptyBag
    /\ Len(bookings) = MaxBookings

\* C15 as the specification states it: the answer to every accepted
\* create_booking request carries the created booking's id, the id the store
\* assigned to the new row.
C15_ReturnsBooking ==
    \A r \in FormRequests :
        LET o == create_booking(r) IN
        o.response.status = 200 => o.response.detail = <<Len(o.bookings)>>

\* C15: the answer to every accepted create_booking request is the fixed
\* confirmation (message and status "Pending") and carries neither the id
\* nor any column of the booking, which is stored under the next id.
C15_ReturnsConfirmation ==
    \A r \in FormRequests :
        LET o == create_booking(r) IN
        o.response.status = 200
        => /\ o.response = Response("create_booking", 200, "", <<>>)
           /\ OneRowStored(o)
           /\ LastRow(o.bookings).status = "Pending"

\* A second booking was accepted, and its answer carries no number.
C15_Witness ==
    /\ response.op = "create_booking"
    /\ response.status = 200
    /\ response.detail = <<>>
    /\ Len(bookings) = 2
    /\ bookings[2].status = "Pending"

\* C16: in every reachable state a create_booking request is answered
\* DateUnavailable only when an Approved booking of the requested venue has
\* the request's event_date: Pending and Rejected bookings of the venue and
\* bookings of other venues on that date never cause the rejection.
C16_OnlyApprovedOfVenue ==
    \A r \in FormRequests :
        Failed(create_booking(r), 400, "DateUnavailable")
        => \E i \in DOMAIN bookings :
              /\ Approved(i)
              /\ bookings[i].venue_id = r.venue_id
              /\ bookings[i].event_date = Denoted(r.event_date)

\* A booking was accepted on the event_date of an Approved booking of the
\* other venue; a request for the same date at its own venue, where the one
\* booking of the date is Pending, is accepted as well.
C16_Witness ==
    /\ response.op = "create_booking"
    /\ response.status = 200
    /\ Len(bookings) = 2
    /\ Approved(1)
    /\ bookings[1].venue_id # bookings[2].venue_id
    /\ bookings[1].event_date = bookings[2].event_date
    /\ \E r \in FormRequests :
          /\ r.venue_id = bookings[2].venue_id
          /\ Denoted(r.event_date) = bookings[2].event_date
          /\ create_booking(r).response.status = 200

\* C17: create_booking reports the first failing check in the order venue
\* lookup, capacity, conflict, date parsing.  In every reachable state, for
\* every request: an unknown venue gives VenueNotFound whatever else is
\* wrong; a stored venue and a guest_count above its capacity give
\* CapacityExceeded, even on a date that is taken or with dates that do not
\* parse; a within-capacity request on the event_date of an Approved booking
\* of the venue gives DateUnavailable, even with an end_date that does not
\* parse or an unknown user; and a failure on the dates or at the commit
\* (500) is reported only when none of the three checks before it fails.
C17_CheckOrder ==
    \A r \in BookingRequests :
        LET o == create_booking(r)
            taken == /\ WellFormedDate(r.event_date)
                     /\ \E i \in DOMAIN bookings :
                           /\ Approved(i)
                           /\ bookings[i].venue_id = r.venue_id
                           /\ bookings[i].event_date = Denoted(r.event_date)
        IN /\ r.venue_id \notin DOMAIN venues => Failed(o, 404, "VenueNotFound")
           /\ (r.venue_id \in DOMAIN venues /\ ~WithinCapacity(r))
              => Failed(o, 400, "CapacityExceeded")
           /\ (WithinCapacity(r) /\ taken) => Failed(o, 400, "DateUnavailable")
           /\ o.response.status = 500 => (WithinCapacity(r) /\ ~taken)

\* A request above capacity, on a date that is taken and with an end_date
\* that does not parse, has been answered CapacityExceeded.
C17_Witness ==
    \E r \in BookingRequests :
        /\ r.venue_id \in DOMAIN venues
        /\ ~WithinCapacity(r)
        /\ conflict(r.venue_id, Denoted(r.event_date))
        /\ r.end_date = BadStr
        /\ response = create_booking(r).response
        /\ response.error = "CapacityExceeded"

\* C18: the capacity bound is inclusive and has no lower end: in every
\* reachable state every request for a stored venue whose guest_count is
\* the venue's capacity or any smaller number, zero and negative numbers
\* included, is not answered CapacityExceeded; with its other fields in
\* order it is accepted and stored with that guest_count.
C18_CapacityInclusive ==
    \A r \in GuestRequests :
        (r.venue_id \in DOMAIN venues
            /\ r.guest_count <= venues[r.venue_id].capacity)
        => LET o == create_booking(r) IN
           /\ o.response.error # "CapacityExceeded"
           /\ o.response.status = 200
           /\ LastRow(o.bookings).guest_count = r.guest_count

\* A booking for a negative number of guests and one for exactly the
\* venue's capacity are stored.
C18_Witness ==
    /\ response.op = "create_booking"
    /\ response.status = 200
    /\ \E i \in DOMAIN bookings : bookings[i].guest_count < 0
    /\ \E i \in DOMAIN bookings :
          bookings[i].guest_count = venues[bookings[i].venue_id].capacity

\* The request for venue v alone on date d, within every venue's capacity.
DayRequest(v, d) ==
    [user_id |-> 1, venue_id |-> v, event_date |-> DateStr(d),
     end_date |-> NoneStr, guest_count |-> 2]

\* C19: in every reachable state, for every stored venue V and date D,
\* get_venue_booked_dates(V) lists D exactly when a within-capacity
\* create_booking request for V with event_date D is rejected with
\* DateUnavailable; and every date it lists is the start date of an
\* Approved booking of V.
C19_BookedDatesAgree ==
    \A v \in DOMAIN venues :
        LET listed == {get_venue_booked_dates(v)[i] :
                          i \in DOMAIN get_venue_booked_dates(v)}
        IN /\ \A d \in Days :
                DateStr(d) \in listed
                <=> Failed(create_booking(DayRequest(v, d)), 400, "DateUnavailable")
           /\ \A s \in listed :
                \E i \in DOMAIN bookings :
                    /\ Approved(i)
                    /\ bookings[i].venue_id = v
                    /\ date(bookings[i].event_date) = s.day

\* The pair of a request is saved, and the request passes the checks that
\* come before the look at saved_venues.
PairSaved(h, v) ==
    /\ h.kind = "bearer"
    /\ h.sub \in DOMAIN users
    /\ BagIn(SavedVenue(h.sub, v), saved)

NoUserStored(o) == o.users = users

\* The handler refused the request with an error of its own (4xx).
Rejected(o) == o.response.status \in 400..499

\* C21: in every reachable state no two users share an email and no two a
\* username; create_user with an email or username in use is answered 400
\* and creates no user; and every create_user, first Google sign-in or
\* profile update that would give two users one email or one username is
\* refused with a request-level error (4xx), the table left as it was.
C21_DuplicatesRejected ==
    /\ users_unique(users)
    /\ \A u \in UserInputs :
          (\E i \in DOMAIN users :
              users[i].email = u.email \/ users[i].username = u.username)
          => /\ create_user(u).response.status = 400
             /\ NoUserStored(create_user(u))
    /\ \A g \in GoogleAccounts :
          (/\ user_by_email(g.email) = 0
           /\ \E i \in DOMAIN users : users[i].username = g.name)
          => /\ Rejected(auth_google(g))
             /\ NoUserStored(auth_google(g))
    /\ \A h \in Headers, data \in ProfileData :
          (/\ h.kind = "bearer"
           /\ h.sub \in DOMAIN users
           /\ \E i \in DOMAIN users :
                 /\ i # h.sub
                 /\ users[i].username = data.username \/ users[i].email = data.email)
          => /\ Rejected(update_user_profile(h, data))
             /\ NoUserStored(update_user_profile(h, data))

\* C22: over every download_invoice call, no table changes; a call whose
\* header has no "Bearer " token or a token that does not decode is
\* answered 401; a call with a valid token of user U for a stored booking of
\* another user is answered 403; and an invoice (200) is only returned for
\* a stored booking whose user_id is the id of the token's user.
C22_InvoiceOwnerOnly ==
    [][\A h \in Headers, b \in 1..(MaxBookings + 1) :
          DownloadInvoice(h, b)
          => /\ UNCHANGED <<users, venues, bookings, saved>>
             /\ h.kind # "bearer" => response'.status = 401
             /\ (/\ h.kind = "bearer"
                 /\ h.sub \in DOMAIN users
                 /\ b \in DOMAIN bookings
                 /\ bookings[b].user_id # h.sub)
                => response'.status = 403
             /\ response'.status = 200
                => /\ h.kind = "bearer"
                   /\ b \in DOMAIN bookings
                   /\ bookings[b].user_id = h.sub]_vars

\* A user with a valid token has been refused the invoice of another
\* user's booking, while a booking of their own is stored as well.
C22_Witness ==
    /\ response = Response("download_invoice", 403, "AccessDenied", <<>>)
    /\ \E i, j \in DOMAIN bookings : bookings[i].user_id # bookings[j].user_id

\* C23: in every reachable state a password login is answered with a token
\* only for a stored user whose password_hash is a non-empty text equal to
\* the submitted password, the token being for that user's id; a user that
\* Google sign-in created (password_hash NULL) gets no token whatever the
\* password; and every other login is answered 401; no login changes the
\* users table.
C23_LoginExactMatch ==
    \A l \in LoginInputs :
        LET o == login(l)
            id == user_by_email(l.email)
            match == /\ id # 0
                     /\ users[id].password_hash # NoPassword
                     /\ users[id].password_hash # ""
                     /\ users[id].password_hash = l.password
        IN /\ NoUserStored(o)
           /\ match => o.response = Response("login", 200, "", <<id>>)
           /\ ~match => o.response = Response("login", 401, "InvalidCredentials", <<>>)
           /\ (id # 0 /\ users[id].provider = "google") => o.response.status = 401

\* A login with the empty password for an account that Google sign-in
\* created has been refused, while an account with an empty password_hash
\* is stored too.
C23_Witness ==
    /\ response = Response("login", 401, "InvalidCredentials", <<>>)
    /\ \E i \in DOMAIN users :
          /\ users[i].provider = "google"
          /\ users[i].password_hash = NoPassword
          /\ login([email |-> users[i].email, password |-> ""]).response = response
    /\ \E i \in DOMAIN users : users[i].password_hash = ""

\* C24: in every reachable state, a run of seed_venues on a store with at
\* least one venue adds nothing; a run that fails stores no sample venue at
\* all; a run on the empty store that does not fail stores exactly the ten
\* sample venues; and whatever a first run left, a second run after it
\* leaves the same, so that runs in sequence on the empty store end with the
\* ten sample venues and never with more.
C24_SeedIdempotent ==
    \A f, g \in SeedRuns :
        LET once == seed_venues(venues, f).venues
            twice == seed_venues(once, g).venues
        IN /\ venues # <<>> => once = venues
           /\ f # NoFailure => once = venues
           /\ (venues = <<>> /\ f = NoFailure)
              => (once = SampleVenues /\ Len(once) = 10)
           /\ once # <<>> => twice = once
           /\ (venues = <<>> /\ g = NoFailure) => twice = SampleVenues

\* The script has run again on the store it seeded, where bookings of the
\* sample venues exist, and has skipped.
C24_Witness ==
    /\ response = Response("seed_venues", 0, "Skipped", <<0>>)
    /\ venues = SampleVenues
    /\ bookings # <<>>

====
